---------------------------- MODULE Spec2Model ----------------------------
(***************************************************************************)
(* A model of PiBenchmark.py: the Machin-formula Pi computation on         *)
(* Python's decimal arithmetic (arctan, calculate_pi) and the benchmark    *)
(* harness (main) that warms up, fans the computation out over a process   *)
(* pool, times it and prints one report line.                              *)
(*                                                                         *)
(* TLC's integers are 32 bits wide and the working precision is at least   *)
(* 11 significant digits, so a Decimal's coefficient is kept as Python     *)
(* keeps it: a sequence of decimal digits, most significant first.         *)
(***************************************************************************)
EXTENDS Integers, Sequences, FiniteSets, TLC

(***************************************************************************)
(* Bounds of the model.                                                    *)
(***************************************************************************)
MaxDigits == 2
MaxReps == 15
MaxWorkers == 2
MaxPoolTasks == 4
MaxFaults == 1
MaxPiDigits == 10
MaxCalls == 2
MaxScale == 14
MaxPasses == 40

\* decimal.DefaultContext.prec, the precision a fresh interpreter starts with
DefaultPrec == 28

(***************************************************************************)
(* Natural numbers as digit sequences, most significant digit first: the   *)
(* arithmetic of Python's int on a coefficient.  Sums and differences are  *)
(* taken digit by digit with the carry in closed form; products and        *)
(* quotients go through limbs of four digits, so that TLC's evaluation     *)
(* stays shallow.                                                          *)
(***************************************************************************)
Zeros(n) == [i \in 1..n |-> 0]

IsZeroNat(a) == \A i \in 1..Len(a) : a[i] = 0

\* without leading zeros
Strip(a) ==
    IF IsZeroNat(a) THEN <<0>>
    ELSE LET first == CHOOSE i \in 1..Len(a) :
                          a[i] # 0 /\ \A k \in 1..(i - 1) : a[k] = 0
         IN  SubSeq(a, first, Len(a))

RECURSIVE IntToNat(_)
IntToNat(n) == IF n < 10 THEN <<n>> ELSE Append(IntToNat(n \div 10), n % 10)

\* s = [a, i, acc]: the digits of a from the i-th on, after the value acc
RECURSIVE NatToIntAcc(_)
NatToIntAcc(s) ==
    IF s.i > Len(s.a) THEN s.acc
    ELSE NatToIntAcc([s EXCEPT !.i = @ + 1, !.acc = @ * 10 + s.a[s.i]])

NatToInt(a) == NatToIntAcc([a |-> a, i |-> 1, acc |-> 0])

PadTo(a, n) == IF Len(a) >= n THEN a ELSE Zeros(n - Len(a)) \o a

LongerLen(a, b) == IF Len(a) > Len(b) THEN Len(a) ELSE Len(b)

\* -1, 0, 1 as a < b, a = b, a > b
NatCmp(a, b) ==
    LET n == LongerLen(a, b)
        x == PadTo(a, n)
        y == PadTo(b, n)
    IN  IF x = y THEN 0
        ELSE LET i == CHOOSE i \in 1..n :
                          x[i] # y[i] /\ \A k \in 1..(i - 1) : x[k] = y[k]
             IN  IF x[i] < y[i] THEN -1 ELSE 1

NatAdd(a, b) ==
    LET n == LongerLen(a, b)
        x == PadTo(a, n)
        y == PadTo(b, n)
        \* the carry out of digit i + 1 into digit i
        carry(i) == IF \E j \in (i + 1)..n :
                          /\ x[j] + y[j] >= 10
                          /\ \A k \in (i + 1)..(j - 1) : x[k] + y[k] = 9
                    THEN 1 ELSE 0
    IN  Strip(<<carry(0)>> \o [i \in 1..n |-> (x[i] + y[i] + carry(i)) % 10])

\* a - b for a >= b
NatSub(a, b) ==
    LET n == LongerLen(a, b)
        x == PadTo(a, n)
        y == PadTo(b, n)
        borrow(i) == IF \E j \in (i + 1)..n :
                           /\ x[j] < y[j]
                           /\ \A k \in (i + 1)..(j - 1) : x[k] = y[k]
                     THEN 1 ELSE 0
    IN  Strip([i \in 1..n |-> (x[i] - y[i] - borrow(i) + 10) % 10])

LimbBase == 10000

ToLimbs(a) ==
    LET n == (Len(a) + 3) \div 4
        p == PadTo(a, 4 * n)
    IN  [k \in 1..n |-> p[4 * k - 3] * 1000 + p[4 * k - 2] * 100
                          + p[4 * k - 1] * 10 + p[4 * k]]

FromLimbs(limbs) ==
    Strip([i \in 1..(4 * Len(limbs)) |->
              (limbs[(i + 3) \div 4] \div (10 ^ (3 - ((i - 1) % 4)))) % 10])

\* s = [x, y, k, lo, hi]: the sum of x[i] * y[k + 1 - i] for i in lo..hi
RECURSIVE SumProd(_)
SumProd(s) ==
    IF s.lo > s.hi THEN 0
    ELSE s.x[s.lo] * s.y[s.k + 1 - s.lo] + SumProd([s EXCEPT !.lo = @ + 1])

\* s = [cols, i, c, acc]: columns i..1 brought below LimbBase, carry c
\* moving up
RECURSIVE CarryAt(_)
CarryAt(s) ==
    IF s.i = 0 THEN <<s.c>> \o s.acc
    ELSE CarryAt([s EXCEPT !.i = @ - 1,
                           !.c = (s.cols[s.i] + s.c) \div LimbBase,
                           !.acc = <<(s.cols[s.i] + s.c) % LimbBase>> \o @])

NatMul(a, b) ==
    LET x == ToLimbs(a) \o <<>>
        y == ToLimbs(b) \o <<>>
        cols == [k \in 1..(Len(x) + Len(y) - 1) |->
                    SumProd([x |-> x, y |-> y, k |-> k,
                             lo |-> IF k + 1 - Len(y) > 1 THEN k + 1 - Len(y)
                                                          ELSE 1,
                             hi |-> IF k < Len(x) THEN k ELSE Len(x)])]
    IN  FromLimbs(CarryAt([cols |-> cols \o <<>>, i |-> Len(cols), c |-> 0,
                           acc |-> <<>>]))

\* s = [x, d, i, r, acc]: long division of the limbs by a machine-sized d,
\* remainder r moving down
RECURSIVE DivAt(_)
DivAt(s) ==
    IF s.i > Len(s.x) THEN <<FromLimbs(s.acc), s.r>>
    ELSE DivAt([s EXCEPT !.i = @ + 1,
                         !.r = (@ * LimbBase + s.x[s.i]) % s.d,
                         !.acc = Append(@, (s.r * LimbBase + s.x[s.i]) \div s.d)])

\* divmod(a, d): <<quotient, remainder>>
NatDivMod(a, d) ==
    DivAt([x |-> ToLimbs(a) \o <<>>, d |-> d, i |-> 1, r |-> 0, acc |-> <<>>])

(***************************************************************************)
(* decimal.Decimal: sign (0 or 1), coefficient digits _int, exponent _exp. *)
(* The value is (-1)^sign * _int * 10^_exp.  Every operation below takes   *)
(* the precision of the context it runs in and rounds its exact result to  *)
(* that many significant digits, ROUND_HALF_EVEN (the default context's    *)
(* rounding; the exponent limits Emin, Emax = -+999999 are out of reach).  *)
(***************************************************************************)
Dec(sign, int, exp) == [sign |-> sign, int |-> int, exp |-> exp]

\* Decimal(n) for an int n, Decimal('5'), Decimal('239'): exact, unrounded
DecOfInt(n) == IF n < 0 THEN Dec(1, IntToNat(-n), 0) ELSE Dec(0, IntToNat(n), 0)

\* Decimal('1e-%d' % scale)
DecTenToMinus(scale) == Dec(0, <<1>>, -scale)

DecIsZero(a) == IsZeroNat(a.int)

\* _round_half_even(prec): whether the kept digits are rounded up
RoundsUp(int, keep) ==
    IF int[keep + 1] = 5 /\ \A i \in (keep + 2)..Len(int) : int[i] = 0
    THEN int[keep] % 2 = 1
    ELSE int[keep + 1] >= 5

\* the coefficient cut to prec digits and rounded
RoundedCoeff(int, prec) ==
    IF RoundsUp(int, prec) THEN NatAdd(SubSeq(int, 1, prec), <<1>>)
                           ELSE SubSeq(int, 1, prec)

\* a rounded coefficient of prec + 1 digits (99..9 rounded up) loses its zero
Refit(sign, coeff, prec, exp_min) ==
    IF Len(coeff) > prec
    THEN Dec(sign, SubSeq(coeff, 1, Len(coeff) - 1), exp_min + 1)
    ELSE Dec(sign, coeff, exp_min)

\* Decimal._fix(context)
Fix(a, prec) ==
    IF Len(a.int) <= prec THEN a
    ELSE Refit(a.sign, RoundedCoeff(a.int, prec), prec, Len(a.int) + a.exp - prec)

\* Decimal.__mul__
DecMul(a, b, prec) ==
    Fix(Dec((a.sign + b.sign) % 2, NatMul(a.int, b.int), a.exp + b.exp), prec)

\* the difference of two coefficients of opposite signs, c = NatCmp(ai, bi)
SignedDiff(sa, ai, sb, bi, exp, c) ==
    IF c = 0 THEN Dec(0, <<0>>, exp)
    ELSE IF c > 0 THEN Dec(sa, NatSub(ai, bi), exp)
    ELSE Dec(sb, NatSub(bi, ai), exp)

\* the exact sum of two coefficients aligned at exponent exp
AlignedSum(sa, ai, sb, bi, exp) ==
    IF sa = sb THEN Dec(sa, NatAdd(ai, bi), exp)
    ELSE SignedDiff(sa, ai, sb, bi, exp, NatCmp(ai, bi))

LowerExp(a, b) == IF a.exp < b.exp THEN a.exp ELSE b.exp

\* Decimal.__add__: the exact sum at the smaller exponent, then rounded
DecAdd(a, b, prec) ==
    Fix(AlignedSum(a.sign, a.int \o Zeros(a.exp - LowerExp(a, b)),
                   b.sign, b.int \o Zeros(b.exp - LowerExp(a, b)),
                   LowerExp(a, b)), prec)

\* Decimal.__sub__: self + other.copy_negate()
DecSub(a, b, prec) == DecAdd(a, Dec(1 - b.sign, b.int, b.exp), prec)

\* an exact quotient: trailing zeros dropped while exp < ideal_exp
TrimExact(sign, coeff, exp, ideal_exp) ==
    LET n == Len(coeff)
        zeros == CHOOSE z \in 0..(n - 1) :
                     /\ \A k \in (n - z + 1)..n : coeff[k] = 0
                     /\ coeff[n - z] # 0 \/ z = n - 1
        room == IF ideal_exp > exp THEN ideal_exp - exp ELSE 0
        cut == IF zeros < room THEN zeros ELSE room
    IN  Dec(sign, SubSeq(coeff, 1, n - cut), exp + cut)

\* an inexact quotient: a last digit 0 or 5 is moved off the rounding tie
Nudge(coeff) ==
    IF coeff[Len(coeff)] % 5 = 0 THEN NatAdd(coeff, <<1>>) ELSE coeff

\* the quotient before rounding, qr = divmod of the shifted coefficients
Quotient(sign, qr, exp, ideal_exp) ==
    IF qr[2] # 0 THEN Dec(sign, Nudge(qr[1]), exp)
    ELSE TrimExact(sign, qr[1], exp, ideal_exp)

DivShift(a, b, prec) == Len(b.int) - Len(a.int) + prec + 1

\* Decimal.__truediv__; the divisors of this program are odd numbers and
\* 5 and 239, whose coefficients are machine-sized
DecDiv(a, b, prec) ==
    Fix(Quotient((a.sign + b.sign) % 2,
                 IF DivShift(a, b, prec) >= 0
                 THEN NatDivMod(a.int \o Zeros(DivShift(a, b, prec)),
                                NatToInt(b.int))
                 ELSE NatDivMod(a.int,
                                NatToInt(b.int \o Zeros(-DivShift(a, b, prec)))),
                 a.exp - b.exp - DivShift(a, b, prec),
                 a.exp - b.exp), prec)

\* Decimal.__pos__
DecPos(a, prec) == IF DecIsZero(a) THEN Dec(0, a.int, a.exp) ELSE Fix(a, prec)

\* Decimal.__abs__ (round=True)
DecAbs(a, prec) == DecPos(Dec(0, a.int, a.exp), prec)

\* the test the Java original makes in place of a comparison, signum() == 0:
\* a is below any b only when it is zero
DecLess_signum(a, b) == DecIsZero(a)

\* Decimal.__lt__, exact, for operands that are not negative
DecLess(a, b) ==
    IF DecIsZero(b) THEN FALSE
    ELSE IF DecIsZero(a) THEN TRUE
    ELSE IF Len(a.int) + a.exp # Len(b.int) + b.exp
         THEN Len(a.int) + a.exp < Len(b.int) + b.exp
    ELSE NatCmp(a.int \o Zeros(a.exp - LowerExp(a, b)),
                b.int \o Zeros(b.exp - LowerExp(a, b))) < 0

(***************************************************************************)
(* Text: a string is a sequence of one-character strings, so that parsing  *)
(* it (Decimal(str), int(str)) is something the model does.                *)
(***************************************************************************)
DigitChars == <<"0", "1", "2", "3", "4", "5", "6", "7", "8", "9">>

IsDigitChar(c) == \E i \in 1..10 : DigitChars[i] = c

DigitOf(c) == (CHOOSE i \in 1..10 : DigitChars[i] = c) - 1

\* Decimal(x_inv_str) for the digit strings '5' and '239': exact
DecOfStr(str) == Dec(0, Strip([i \in 1..Len(str) |-> DigitOf(str[i])]), 0)

NoDec == Dec(0, <<0>>, 0)

(***************************************************************************)
(* arctan(x_inv_str, scale), one activation of it: pc is the line about to *)
(* run.  A step takes the activation and the precision of the context of   *)
(* the process running it, and gives both back as the step leaves them.    *)
(***************************************************************************)
arctan_call(x_inv_str, scale) ==
    [pc |-> "L40", x_inv_str |-> x_inv_str, scale |-> scale,
     x_squared |-> NoDec, result |-> NoDec, term |-> NoDec, divisor |-> NoDec]

NoCall == arctan_call(<<>>, 0)

\* line 40 sets the context's precision; lines 41-47 give x, x_squared,
\* result, term and divisor under it
arctan_L42(a, ctx_prec, x) ==
    [a |-> [a EXCEPT !.pc = "L50", !.x_squared = DecMul(x, x, ctx_prec),
                     !.result = x, !.term = x, !.divisor = DecOfInt(1)],
     prec |-> ctx_prec,
     used |-> {ctx_prec}]

arctan_L40(a, prec) ==
    arctan_L42(a, a.scale, DecDiv(DecOfInt(1), DecOfStr(a.x_inv_str), a.scale))

\* lines 57-59: the test of the candidate term, the break (to the return of
\* line 61) or the addition
arctan_L57(a, prec, divisor, term, term_to_add) ==
    IF DecLess(DecAbs(term_to_add, prec), DecTenToMinus(a.scale))
    THEN [a |-> [a EXCEPT !.pc = "L61", !.divisor = divisor, !.term = term],
          prec |-> prec,
          used |-> {prec}]
    ELSE [a |-> [a EXCEPT !.divisor = divisor, !.term = term,
                          !.result = DecAdd(a.result, term_to_add, prec)],
          prec |-> prec,
          used |-> {prec}]

\* line 52
arctan_L52(a, prec, divisor, term) ==
    arctan_L57(a, prec, divisor, term, DecDiv(term, divisor, prec))

\* lines 50-59: one pass of the while loop, every operation under the
\* context's precision as it stands
arctan_L50(a, prec) ==
    arctan_L52(a, prec,
               DecAdd(a.divisor, DecOfInt(2), prec),
               DecMul(a.term, DecMul(a.x_squared, DecOfInt(-1), prec), prec))

arctan_step(a, prec) ==
    IF a.pc = "L40" THEN arctan_L40(a, prec) ELSE arctan_L50(a, prec)

\* The states [a, prec, used] a call of arctan goes through from s on, to
\* its return or through s.left passes of its loop; used gathers the
\* precisions of the steps so far
RECURSIVE arctan_trace(_)
arctan_trace(s) ==
    IF s.a.pc = "L61" \/ (s.a.pc = "L50" /\ s.left = 0) THEN <<s>>
    ELSE <<s>> \o arctan_trace(
             [arctan_step(s.a, s.prec) EXCEPT !.used = @ \cup s.used]
             @@ [left |-> IF s.a.pc = "L50" THEN s.left - 1 ELSE s.left])

\* the calls arctan('5', scale) and arctan('239', scale) for the scales
\* 1..MaxScale, each traced once.  No step of arctan reads the precision its
\* call found: line 40 sets it first.
arctan_traces ==
    [k \in {<<"5">>, <<"2", "3", "9">>} \X (1..MaxScale) |->
        arctan_trace([a |-> arctan_call(k[1], k[2]), prec |-> DefaultPrec,
                      used |-> {}, left |-> MaxPasses])] @@ <<>>

(***************************************************************************)
(* calculate_pi(digits), one activation of it.  used and used_final record *)
(* the precisions under which the operations of lines 76-80 and of line 85 *)
(* ran, entry_prec the precision the call found in the context.            *)
(***************************************************************************)
\* line 71 without its guard digits
ScaleOf_noguard(ndigits) == ndigits

\* line 71
ScaleOf(ndigits) == ndigits + 10

calculate_pi_call(ndigits) ==
    [pc |-> "L71", digits |-> ndigits, scale |-> 0, a |-> NoCall,
     term1 |-> NoDec, term2 |-> NoDec, pi |-> NoDec, ret |-> NoDec,
     used |-> {}, used_final |-> {}, entry_prec |-> 0]

NoFrame == [calculate_pi_call(0) EXCEPT !.pc = "idle"]

\* lines 71-74
calculate_pi_L71(f, prec) ==
    [f |-> [f EXCEPT !.pc = "L76", !.scale = ScaleOf(f.digits),
                     !.entry_prec = prec,
                     !.a = arctan_call(<<"5">>, ScaleOf(f.digits))],
     prec |-> ScaleOf(f.digits)]

\* a step s of the arctan call in progress, seen from its caller
InArctan(f, s) ==
    [f |-> [f EXCEPT !.a = s.a, !.used = f.used \cup s.used], prec |-> s.prec]

\* line 76: term1 = arctan('5', scale), a step of the call or its return
calculate_pi_L76(f, prec) ==
    IF f.a.pc = "L61"
    THEN [f |-> [f EXCEPT !.pc = "L77", !.term1 = f.a.result,
                          !.a = arctan_call(<<"2", "3", "9">>, f.scale)],
          prec |-> prec]
    ELSE InArctan(f, arctan_step(f.a, prec))

\* line 77: term2 = arctan('239', scale)
calculate_pi_L77(f, prec) ==
    IF f.a.pc = "L61"
    THEN [f |-> [f EXCEPT !.pc = "L80", !.term2 = f.a.result, !.a = NoCall],
          prec |-> prec]
    ELSE InArctan(f, arctan_step(f.a, prec))

\* line 80: pi = (term1 * 16) - (term2 * 4)
calculate_pi_L80(f, prec) ==
    [f |-> [f EXCEPT !.pc = "L83",
                     !.pi = DecSub(DecMul(f.term1, DecOfInt(16), prec),
                                   DecMul(f.term2, DecOfInt(4), prec), prec),
                     !.used = f.used \cup {prec}],
     prec |-> prec]

\* line 83 left out: the context keeps the working precision
calculate_pi_L83_skipped(f, prec) ==
    [f |-> [f EXCEPT !.pc = "L85"], prec |-> prec]

\* line 83: getcontext().prec = digits
calculate_pi_L83(f, prec) ==
    [f |-> [f EXCEPT !.pc = "L85"], prec |-> f.digits]

\* line 85 followed by a restore of the precision the call found
calculate_pi_L85_restoring(f, prec) ==
    [f |-> [f EXCEPT !.pc = "returned", !.ret = DecPos(f.pi, prec),
                     !.used_final = {prec}],
     prec |-> f.entry_prec]

\* line 85: return +pi
calculate_pi_L85(f, prec) ==
    [f |-> [f EXCEPT !.pc = "returned", !.ret = DecPos(f.pi, prec),
                     !.used_final = {prec}],
     prec |-> prec]

calculate_pi_step(f, prec) ==
    CASE f.pc = "L71" -> calculate_pi_L71(f, prec)
      [] f.pc = "L76" -> calculate_pi_L76(f, prec)
      [] f.pc = "L77" -> calculate_pi_L77(f, prec)
      [] f.pc = "L80" -> calculate_pi_L80(f, prec)
      [] f.pc = "L83" -> calculate_pi_L83(f, prec)
      [] f.pc = "L85" -> calculate_pi_L85(f, prec)

Running(f) == f.pc \in {"L71", "L76", "L77", "L80", "L83", "L85"}

\* An exception leaves no activation behind
RaisedFrame == [NoFrame EXCEPT !.pc = "raised"]

(***************************************************************************)
(* The command line.  int(str) accepts an optional sign and decimal        *)
(* digits, and raises ValueError on anything else.                         *)
(***************************************************************************)
IntToStr(n) == LET d == IntToNat(n) IN [i \in 1..Len(d) |-> DigitChars[d[i] + 1]]

IsIntStr(str) ==
    LET body == IF Len(str) > 0 /\ str[1] \in {"+", "-"} THEN Tail(str) ELSE str
    IN  Len(body) > 0 /\ \A i \in 1..Len(body) : IsDigitChar(body[i])

ParseInt(str) ==
    LET neg == str[1] = "-"
        body == IF str[1] \in {"+", "-"} THEN Tail(str) ELSE str
        v == NatToInt([i \in 1..Len(body) |-> DigitOf(body[i])])
    IN  IF neg THEN -v ELSE v

Inputs ==
    {t \in (1..MaxDigits) \X (1..MaxReps) \X (1..MaxWorkers) :
        t[3] = 1 \/ t[2] * t[3] <= MaxPoolTasks}

BadTokens == {<<"0">>, <<"-", "1">>, <<"a", "b", "c">>, <<>>, <<"1", ".", "5">>}

ProgName == <<"p", "y">>

ArgLists ==
    {<<ProgName, IntToStr(t[1]), IntToStr(t[2]), IntToStr(t[3])>> : t \in Inputs}
    \cup {<<ProgName, b, <<"1">>, <<"1">> >> : b \in BadTokens}
    \cup {<<ProgName, <<"1">>, b, <<"1">> >> : b \in BadTokens}
    \cup {<<ProgName, <<"1">>, <<"1">>, b>> : b \in BadTokens}
    \cup {<<ProgName>>, <<ProgName, <<"1">>, <<"1">> >>,
          <<ProgName, <<"1">>, <<"1">>, <<"1">>, <<"1">> >>,
          <<ProgName, <<"+", "1">>, <<"0", "1">>, <<"1">> >>}

(***************************************************************************)
(* The state of a run.  Process 0 is the interpreter running main; the     *)
(* pool's workers are processes 1..num_processes, which exist from the     *)
(* pool's creation to its termination.  ctx and frame have the living      *)
(* processes as their domain.                                              *)
(***************************************************************************)
VARIABLES
    argv,             \* sys.argv
    pc,               \* the line main is at
    digits, reps_per_thread, num_processes,
    warm_up_reps,
    warm_i,           \* passes of the warm-up loop begun
    tasks,            \* the list of line 127
    timer,            \* "unset", "running" (start_time taken), "stopped"
    ctx,              \* process -> getcontext().prec
    frame,            \* process -> its activation of calculate_pi
    taskqueue,        \* the pool's chunks not yet taken, each a list of task indices
    worker,           \* worker -> the chunk it runs and its place in it
    number_left,      \* chunks of the map without a result yet
    map_success,      \* no chunk's result so far is an exception
    started, ran,     \* task index -> calls begun, calls returned (a counter)
    raised,           \* indices of the tasks that raised
    untimed,          \* some pool task began or ended outside the timed region
    faults,           \* errors the environment has raised so far
    passes,           \* passes of the loop of arctan, when it runs alone
    stdout, stderr, exit_status

vars == <<argv, pc, digits, reps_per_thread, num_processes, warm_up_reps, warm_i,
          tasks, timer, ctx, frame, taskqueue, worker, number_left,
          map_success, started, ran, raised, untimed, faults, passes,
          stdout, stderr, exit_status>>

argState == <<argv, digits, reps_per_thread, num_processes>>
poolState == <<taskqueue, worker, number_left, map_success>>
counters == <<started, ran, raised, untimed>>
output == <<stdout, stderr, exit_status>>

Main == 0
Workers == DOMAIN ctx \ {Main}

InitRest ==
    /\ digits = 0 /\ reps_per_thread = 0 /\ num_processes = 0
    /\ warm_up_reps = 0 /\ warm_i = 0
    /\ tasks = <<>>
    /\ timer = "unset"
    /\ taskqueue = <<>> /\ worker = <<>>
    /\ number_left = 0 /\ map_success = TRUE
    /\ started = <<>> /\ ran = <<>> /\ raised = {} /\ untimed = FALSE
    /\ faults = 0 /\ passes = 0
    /\ stdout = <<>> /\ stderr = <<>> /\ exit_status = -1

Init ==
    /\ argv \in ArgLists
    /\ pc = "L95"
    /\ ctx = (Main :> DefaultPrec)
    /\ frame = (Main :> NoFrame)
    /\ InitRest

(***************************************************************************)
(* main, lines 95-111: the arguments.                                      *)
(***************************************************************************)
\* line 105 with < in place of <=: zero digits pass
Positive_or_zero(d, r, n) == d >= 0 /\ r > 0 /\ n > 0

\* line 105
Positive(d, r, n) == d > 0 /\ r > 0 /\ n > 0

Exit(status, message) ==
    /\ pc' = "exited"
    /\ exit_status' = status
    /\ stderr' = Append(stderr, message)
    /\ UNCHANGED <<digits, reps_per_thread, num_processes, stdout>>

Main_L95 ==
    /\ pc = "L95"
    /\ IF Len(argv) # 4 THEN Exit(1, "usage")
       ELSE IF \E i \in 2..4 : ~IsIntStr(argv[i]) THEN Exit(1, "invalid")
       ELSE IF ~Positive(ParseInt(argv[2]), ParseInt(argv[3]), ParseInt(argv[4]))
            THEN Exit(1, "invalid")
       ELSE /\ digits' = ParseInt(argv[2])
            /\ reps_per_thread' = ParseInt(argv[3])
            /\ num_processes' = ParseInt(argv[4])
            /\ pc' = "L116"
            /\ UNCHANGED output
    /\ UNCHANGED <<argv, warm_up_reps, warm_i, tasks, timer, ctx, frame,
                   poolState, counters, faults, passes>>

(***************************************************************************)
(* main, lines 116-118: the warm-up, calls of calculate_pi by main itself. *)
(***************************************************************************)
\* int(reps_per_thread * 0.1): the binary64 product lies at or just above
\* reps_per_thread / 10 (0.1 is stored as 0.1000000000000000055...), never a
\* whole number above it in the range of the model, and int() truncates
IntOfTenth(reps) == reps \div 10

\* line 116 with round() in place of int(): the tenth rounded to the
\* nearest whole number (a half rounded up or to even gives the same
\* max(1, .) for every reps below 25)
WarmUpReps_rounded(reps) ==
    IF (reps + 5) \div 10 > 1 THEN (reps + 5) \div 10 ELSE 1

\* line 116
WarmUpReps(reps) == IF IntOfTenth(reps) > 1 THEN IntOfTenth(reps) ELSE 1

Main_L116 ==
    /\ pc = "L116"
    /\ warm_up_reps' = WarmUpReps(reps_per_thread)
    /\ warm_i' = 0
    /\ pc' = "L117"
    /\ UNCHANGED <<argState, tasks, timer, ctx, frame, poolState, counters,
                   faults, passes, output>>

\* range(warm_up_reps) one pass short
WarmUpLeft_short == warm_i + 1 < warm_up_reps

\* line 117, range(warm_up_reps): passes are left
WarmUpLeft == warm_i < warm_up_reps

\* line 117: the next pass of the loop calls calculate_pi(digits), or the
\* loop ends
Main_L117 ==
    /\ pc = "L117"
    /\ IF WarmUpLeft
       THEN /\ warm_i' = warm_i + 1
            /\ frame' = [frame EXCEPT ![Main] = calculate_pi_call(digits)]
            /\ pc' = "L118"
       ELSE /\ pc' = "L123"
            /\ UNCHANGED <<warm_i, frame>>
    /\ UNCHANGED <<argState, warm_up_reps, tasks, timer, ctx, poolState,
                   counters, faults, passes, output>>

\* the last state of the traced call arctan(a.x_inv_str, a.scale)
arctan_traced(tr) == tr[Len(tr)]

\* The steps of calculate_pi from s = [f, prec, line] until it leaves the
\* line: the whole of a line, a call of arctan (lines 76, 77) included,
\* which is taken from its trace where it has one
RECURSIVE calculate_pi_line(_)
calculate_pi_line(s) ==
    IF s.f.pc # s.line THEN s
    ELSE IF /\ s.f.pc \in {"L76", "L77"} /\ s.f.a.pc = "L40"
            /\ <<s.f.a.x_inv_str, s.f.a.scale>> \in DOMAIN arctan_traces
    THEN calculate_pi_line(
             InArctan(s.f, arctan_traced(arctan_traces[<<s.f.a.x_inv_str,
                                                         s.f.a.scale>>]))
             @@ [line |-> s.line])
    ELSE calculate_pi_line(calculate_pi_step(s.f, s.prec) @@ [line |-> s.line])

Stepped(p, s) ==
    /\ frame' = [frame EXCEPT ![p] = s.f]
    /\ ctx' = [ctx EXCEPT ![p] = s.prec]

\* process p runs the line of calculate_pi it is at; nothing it does there
\* reads or writes anything outside its own activation and context
CalcLine(p) ==
    /\ Running(frame[p])
    /\ Stepped(p, calculate_pi_line([f |-> frame[p], prec |-> ctx[p],
                                     line |-> frame[p].pc]))

Main_L118 ==
    /\ pc = "L118"
    /\ CalcLine(Main)
    /\ UNCHANGED <<argState, pc, warm_up_reps, warm_i, tasks, timer, poolState,
                   counters, faults, passes, output>>

\* the call returns and its value is dropped
Main_L118_return ==
    /\ pc = "L118"
    /\ frame[Main].pc = "returned"
    /\ frame' = [frame EXCEPT ![Main] = NoFrame]
    /\ pc' = "L117"
    /\ UNCHANGED <<argState, warm_up_reps, warm_i, tasks, timer, ctx, poolState,
                   counters, faults, passes, output>>

\* an error inside a warm-up call (MemoryError, say) is caught nowhere
Main_L118_raise ==
    /\ pc = "L118"
    /\ Running(frame[Main])
    /\ faults < MaxFaults
    /\ faults' = faults + 1
    /\ frame' = [frame EXCEPT ![Main] = RaisedFrame]
    /\ pc' = "crashed"
    /\ exit_status' = 1
    /\ stderr' = Append(stderr, "traceback")
    /\ UNCHANGED <<argState, warm_up_reps, warm_i, tasks, timer, ctx, poolState,
                   counters, passes, stdout>>

(***************************************************************************)
(* main, lines 123-138: the timed region.                                  *)
(***************************************************************************)
\* line 123 without the factor num_processes
TotalCalculations_one_process(reps, procs) == reps

\* line 123
TotalCalculations(reps, procs) == reps * procs

\* lines 123-127
Main_L123 ==
    /\ pc = "L123"
    /\ tasks' = [i \in 1..TotalCalculations(reps_per_thread, num_processes)
                    |-> digits]
    /\ started' = [i \in 1..TotalCalculations(reps_per_thread, num_processes)
                      |-> 0]
    /\ ran' = [i \in 1..TotalCalculations(reps_per_thread, num_processes) |-> 0]
    /\ pc' = "L130"
    /\ UNCHANGED <<argState, warm_up_reps, warm_i, timer, ctx, frame, poolState,
                   raised, untimed, faults, passes, output>>

\* line 130: start_time
Main_L130 ==
    /\ pc = "L130"
    /\ timer' = "running"
    /\ pc' = "L134"
    /\ UNCHANGED <<argState, warm_up_reps, warm_i, tasks, ctx, frame, poolState,
                   counters, faults, passes, output>>

\* line 134: Pool(processes=num_processes) starts its workers at once.  A
\* forked worker inherits the parent's context, a spawned one starts with
\* the default context.
Main_L134 ==
    /\ pc = "L134"
    /\ \E inherited \in {ctx[Main], DefaultPrec} :
          ctx' = [p \in {Main} \cup (1..num_processes) |->
                     IF p = Main THEN ctx[Main] ELSE inherited]
    /\ frame' = [p \in {Main} \cup (1..num_processes) |->
                    IF p = Main THEN frame[Main] ELSE NoFrame]
    /\ worker' = [w \in 1..num_processes |-> [chunk |-> <<>>, pos |-> 0]]
    /\ pc' = "L136"
    /\ UNCHANGED <<argState, warm_up_reps, warm_i, tasks, timer, taskqueue,
                   number_left, map_success, counters, faults, passes, output>>

\* Pool._map_async: chunksize, extra = divmod(len(iterable), len(pool) * 4)
ChunkSize(len, procs) ==
    IF len % (procs * 4) = 0 THEN len \div (procs * 4)
                             ELSE len \div (procs * 4) + 1

\* Pool._get_tasks: consecutive slices of chunksize task indices
Chunks(len, size) ==
    LET count == IF len % size = 0 THEN len \div size ELSE len \div size + 1
    IN  [k \in 1..count |->
            [j \in 1..(IF k * size <= len THEN size ELSE len - (k - 1) * size)
                |-> (k - 1) * size + j]]

\* line 136, the call: pool.map puts the chunks on the task queue
Main_L136 ==
    /\ pc = "L136"
    /\ taskqueue' = Chunks(Len(tasks), ChunkSize(Len(tasks), num_processes))
    /\ number_left' = Len(taskqueue')
    /\ map_success' = TRUE
    /\ pc' = "L136_wait"
    /\ UNCHANGED <<argState, warm_up_reps, warm_i, tasks, timer, ctx, frame,
                   worker, counters, faults, passes, output>>

\* a map() that returns once every chunk is handed out
MapReady_dispatched == taskqueue = <<>>

\* map() blocks until every chunk has a result
MapReady == number_left = 0

\* a map() that drops the exceptions of its tasks
MapRaises_never == FALSE

\* MapResult.get(): a chunk's exception is raised again in the caller
MapRaises == ~map_success

\* line 136, the return, and the end of the with block (lines 134-136):
\* Pool.__exit__ terminates the workers; an exception of a task is raised
\* again by map() and main catches nothing
Main_L136_return ==
    /\ pc = "L136_wait"
    /\ MapReady
    /\ ctx' = (Main :> ctx[Main])
    /\ frame' = (Main :> frame[Main])
    /\ worker' = <<>>
    /\ IF MapRaises
       THEN /\ pc' = "crashed"
            /\ exit_status' = 1
            /\ stderr' = Append(stderr, "traceback")
            /\ UNCHANGED stdout
       ELSE /\ pc' = "L138"
            /\ UNCHANGED output
    /\ UNCHANGED <<argState, warm_up_reps, warm_i, tasks, timer, taskqueue,
                   number_left, map_success, counters, faults, passes>>

\* line 138: end_time
Main_L138 ==
    /\ pc = "L138"
    /\ timer' = "stopped"
    /\ pc' = "L141"
    /\ UNCHANGED <<argState, warm_up_reps, warm_i, tasks, ctx, frame, poolState,
                   counters, faults, passes, output>>

\* lines 141-150: the report line; the two times are left out of it
Main_L141 ==
    /\ pc = "L141"
    /\ stdout' = Append(stdout, [Digits |-> digits,
                                 RepsPerThread |-> reps_per_thread,
                                 Threads |-> num_processes])
    /\ exit_status' = 0
    /\ pc' = "exited"
    /\ UNCHANGED <<argState, warm_up_reps, warm_i, tasks, timer, ctx, frame,
                   poolState, counters, faults, passes, stderr>>

(***************************************************************************)
(* A worker process of the pool: it takes a chunk, calls calculate_pi on   *)
(* each task of it in turn (mapstar) and puts the chunk's result, which    *)
(* the parent's result handler counts (MapResult._set): number_left goes   *)
(* down, and an exception as the result clears map_success.                *)
(***************************************************************************)
Task(w) == worker[w].chunk[worker[w].pos]

Idle == [chunk |-> <<>>, pos |-> 0]

WorkerGet(w) ==
    /\ worker[w].chunk = <<>>
    /\ taskqueue # <<>>
    /\ taskqueue' = Tail(taskqueue)
    /\ worker' = [worker EXCEPT ![w] = [chunk |-> Head(taskqueue), pos |-> 1]]
    /\ frame' = [frame EXCEPT ![w] = calculate_pi_call(tasks[Head(taskqueue)[1]])]
    /\ started' = [started EXCEPT ![Head(taskqueue)[1]] = @ + 1]
    /\ untimed' = IF timer = "running" THEN untimed ELSE TRUE
    /\ UNCHANGED <<argState, pc, warm_up_reps, warm_i, tasks, timer, ctx,
                   number_left, map_success, ran, raised, faults, passes,
                   output>>

WorkerStep(w) ==
    /\ worker[w].chunk # <<>>
    /\ CalcLine(w)
    /\ UNCHANGED <<argState, pc, warm_up_reps, warm_i, tasks, timer, poolState,
                   counters, faults, passes, output>>

\* a call returns: the next task of the chunk, or the chunk's result
WorkerReturn(w) ==
    /\ worker[w].chunk # <<>>
    /\ frame[w].pc = "returned"
    /\ ran' = [ran EXCEPT ![Task(w)] = @ + 1]
    /\ untimed' = IF timer = "running" THEN untimed ELSE TRUE
    /\ IF worker[w].pos < Len(worker[w].chunk)
       THEN /\ worker' = [worker EXCEPT ![w].pos = @ + 1]
            /\ frame' = [frame EXCEPT ![w] =
                            calculate_pi_call(tasks[worker[w].chunk[worker[w].pos + 1]])]
            /\ started' = [started EXCEPT ![worker[w].chunk[worker[w].pos + 1]] = @ + 1]
            /\ UNCHANGED number_left
       ELSE /\ worker' = [worker EXCEPT ![w] = Idle]
            /\ frame' = [frame EXCEPT ![w] = NoFrame]
            /\ number_left' = number_left - 1
            /\ UNCHANGED started
    /\ UNCHANGED <<argState, pc, warm_up_reps, warm_i, tasks, timer, ctx,
                   taskqueue, map_success, raised, faults, passes, output>>

\* a call raises: the rest of the chunk is not run, the worker catches the
\* exception, puts it as the chunk's result and goes on to the next chunk
WorkerRaise(w) ==
    /\ worker[w].chunk # <<>>
    /\ Running(frame[w])
    /\ faults < MaxFaults
    /\ faults' = faults + 1
    /\ raised' = raised \cup {Task(w)}
    /\ worker' = [worker EXCEPT ![w] = Idle]
    /\ frame' = [frame EXCEPT ![w] = NoFrame]
    /\ number_left' = number_left - 1
    /\ map_success' = FALSE
    /\ UNCHANGED <<argState, pc, warm_up_reps, warm_i, tasks, timer, ctx,
                   taskqueue, started, ran, untimed, passes, output>>

Next ==
    \/ Main_L95 \/ Main_L116 \/ Main_L117 \/ Main_L118 \/ Main_L118_return
    \/ Main_L118_raise \/ Main_L123 \/ Main_L130 \/ Main_L134 \/ Main_L136
    \/ Main_L136_return \/ Main_L138 \/ Main_L141
    \/ \E w \in Workers : WorkerGet(w)
    \/ \E w \in Workers : WorkerStep(w)
    \/ \E w \in Workers : WorkerReturn(w)
    \/ \E w \in Workers : WorkerRaise(w)

Spec == Init /\ [][Next]_vars

(***************************************************************************)
(* calculate_pi on its own: one process calls it again and again, with any *)
(* number of digits up to MaxPiDigits, each call taken a step at a time    *)
(* (a pass of the loop of arctan is one step).  The first call finds the   *)
(* default context, a later one the context its predecessor left.          *)
(***************************************************************************)
PiInit ==
    /\ argv = <<>>
    /\ pc = "calculate_pi"
    /\ ctx = (Main :> DefaultPrec)
    /\ frame = (Main :> NoFrame)
    /\ InitRest

Pi_call ==
    /\ frame[Main].pc = "idle"
    /\ warm_i < MaxCalls
    /\ warm_i' = warm_i + 1
    /\ \E d \in 1..MaxPiDigits :
          /\ digits' = d
          /\ frame' = [frame EXCEPT ![Main] = calculate_pi_call(d)]
    /\ UNCHANGED <<argv, pc, reps_per_thread, num_processes, warm_up_reps,
                   tasks, timer, ctx, poolState, counters, faults, passes,
                   output>>

Pi_step ==
    /\ Running(frame[Main])
    /\ Stepped(Main, calculate_pi_step(frame[Main], ctx[Main]))
    /\ UNCHANGED <<argState, pc, warm_up_reps, warm_i, tasks, timer, poolState,
                   counters, faults, passes, output>>

Pi_return ==
    /\ frame[Main].pc = "returned"
    /\ frame' = [frame EXCEPT ![Main] = NoFrame]
    /\ UNCHANGED <<argState, pc, warm_up_reps, warm_i, tasks, timer, ctx,
                   poolState, counters, faults, passes, output>>

PiNext == Pi_call \/ Pi_step \/ Pi_return

PiSpec == PiInit /\ [][PiNext]_vars

(***************************************************************************)
(* arctan on its own: one call arctan(x_inv_str, scale) for the two        *)
(* arguments calculate_pi passes and every scale up to MaxScale, a pass of *)
(* its loop at a time, as arctan_traces has them.  The code has no cap on   *)
(* the passes; the model stops a call after MaxPasses of them, and a call  *)
(* that is running goes on running (weak fairness).                        *)
(***************************************************************************)
ArctanInit ==
    /\ argv = <<>>
    /\ pc = "arctan"
    /\ ctx = (Main :> DefaultPrec)
    /\ \E b \in {<<"5">>, <<"2", "3", "9">>}, scale \in 1..MaxScale :
          frame = (Main :> [NoFrame EXCEPT !.a = arctan_call(b, scale)])
    /\ InitRest

\* the trace of the call in progress
ArctanTrace ==
    arctan_traces[<<frame[Main].a.x_inv_str, frame[Main].a.scale>>]

\* lines 40-47
Arctan_L40 ==
    /\ frame[Main].a.pc = "L40"
    /\ Stepped(Main, InArctan(frame[Main], ArctanTrace[2]))
    /\ UNCHANGED <<argState, pc, warm_up_reps, warm_i, tasks, timer, poolState,
                   counters, faults, passes, output>>

\* lines 49-59, one pass
Arctan_L50 ==
    /\ frame[Main].a.pc = "L50"
    /\ passes < MaxPasses
    /\ passes' = passes + 1
    /\ Stepped(Main, InArctan(frame[Main], ArctanTrace[passes + 3]))
    /\ UNCHANGED <<argState, pc, warm_up_reps, warm_i, tasks, timer, poolState,
                   counters, faults, output>>

ArctanNext == Arctan_L40 \/ Arctan_L50

ArctanSpec == ArctanInit /\ [][ArctanNext]_vars /\ WF_vars(ArctanNext)

(***************************************************************************)
(* The properties.                                                         *)
(***************************************************************************)
\* the run got past the checks of lines 95-111
ArgsAccepted == pc \notin {"L95", "exited"} \/ exit_status = 0

\* C1: a run that reaches the report has run, inside the timed region,
\* exactly reps_per_thread * num_processes tasks, each with argument digits
\* and each exactly once, however the pool hands its chunks to the workers;
\* and a worker never calls calculate_pi with another argument.
C1_EveryTaskOnce ==
    /\ stdout # <<>> =>
          /\ Len(tasks) = reps_per_thread * num_processes
          /\ DOMAIN started = 1..(reps_per_thread * num_processes)
          /\ DOMAIN ran = 1..(reps_per_thread * num_processes)
          /\ \A t \in 1..(reps_per_thread * num_processes) :
                tasks[t] = digits /\ started[t] = 1 /\ ran[t] = 1
          /\ ~untimed
    /\ \A w \in Workers : Running(frame[w]) => frame[w].digits = digits

C1_Reported ==
    /\ stdout # <<>>
    /\ reps_per_thread = 2 /\ num_processes = 2
    /\ \A t \in 1..4 : ran[t] = 1

\* C2: the timer is stopped only when every dispatched task has completed
\* (no task pending on the queue, none running in a worker), and it is
\* running before any task is dispatched or begun.
C2_TimerBarrier ==
    /\ timer = "stopped" =>
          /\ taskqueue = <<>>
          /\ \A t \in DOMAIN ran : started[t] = 1 /\ ran[t] = 1
          /\ \A p \in DOMAIN frame : ~Running(frame[p])
    /\ (taskqueue # <<>> \/ \E t \in DOMAIN started : started[t] > 0) =>
          timer # "unset"

C2_StoppedAfterAll ==
    /\ timer = "stopped"
    /\ num_processes = 2 /\ Len(tasks) = 4
    /\ \A t \in 1..4 : ran[t] = 1

\* the command line is one that lines 95-111 must refuse
BadArguments ==
    \/ Len(argv) # 4
    \/ \E i \in 2..4 : ~IsIntStr(argv[i])
    \/ \E i \in 2..4 : IsIntStr(argv[i]) /\ ParseInt(argv[i]) <= 0

\* C3: with a wrong number of arguments, or an argument that is no integer
\* or is <= 0, the process ends with a status that is not 0 and nothing has
\* run: no warm-up call, no pool, no task, no report line.
C3_InvalidArguments ==
    BadArguments =>
        /\ pc \in {"L95", "exited"}
        /\ pc = "exited" => exit_status # 0 /\ stderr # <<>>
        /\ stdout = <<>>
        /\ warm_i = 0 /\ \A p \in DOMAIN frame : frame[p].pc = "idle"
        /\ DOMAIN ctx = {Main}
        /\ tasks = <<>> /\ taskqueue = <<>> /\ started = <<>>

C3_Refused ==
    /\ pc = "exited" /\ exit_status = 1
    /\ Len(argv) = 4 /\ argv[3] = <<"-", "1">>

\* C4, as the claim has it: the warm-up makes max(1, round(reps * 0.1))
\* calls before the timed region.
C4_RoundedTenth ==
    (ArgsAccepted /\ timer # "unset") =>
        warm_i = (IF (reps_per_thread + 5) \div 10 > 1
                  THEN (reps_per_thread + 5) \div 10 ELSE 1)

\* C4, amended: the warm-up makes max(1, floor(reps * 0.1)) calls before the
\* timed region (the tenth is truncated, not rounded), so still never none,
\* and 1 call for reps = 1.
C4_TruncatedTenth ==
    /\ (ArgsAccepted /\ pc # "L116") =>
          /\ warm_up_reps = (IF reps_per_thread \div 10 >= 1
                             THEN reps_per_thread \div 10 ELSE 1)
          /\ warm_i <= warm_up_reps
    /\ (ArgsAccepted /\ timer # "unset") =>
          /\ warm_i = warm_up_reps
          /\ warm_i >= 1

C4_FifteenReps ==
    /\ timer = "running"
    /\ reps_per_thread = 15
    /\ warm_i = 1

\* the decimal digits of Pi, 3.14159...
PiDigits ==
    <<3, 1, 4, 1, 5, 9, 2, 6, 5, 3, 5, 8, 9, 7, 9, 3, 2, 3, 8, 4,
      6, 2, 6, 4, 3, 3, 8, 3, 2, 7, 9, 5, 0, 2, 8, 8, 4, 1, 9, 7>>

\* Pi correctly rounded to d significant digits (no digit of Pi after the
\* d-th for d up to 30 is followed by zeros only, so there is no tie)
PiRounded(d) ==
    IF PiDigits[d + 1] >= 5 THEN NatAdd(SubSeq(PiDigits, 1, d), <<1>>)
                            ELSE SubSeq(PiDigits, 1, d)

C6_ArctanTerminates ==
    /\ <>(frame[Main].a.pc = "L61")
    /\ [](passes < MaxPasses)

C6_Returned ==
    /\ frame[Main].a.pc = "L61"
    /\ frame[Main].a.x_inv_str = <<"5">>
    /\ frame[Main].a.scale = 14
    /\ passes >= 9

\* C7: once a task has raised in the pool the run fails: no report line,
\* the timer is never stopped, the run can only end crashed with a status
\* that is not 0 and a traceback, and the task that raised was begun once
\* and never ran to its end (it is not tried again).
C7_TaskErrorFatal ==
    raised # {} =>
        /\ stdout = <<>>
        /\ pc \in {"L136_wait", "crashed"}
        /\ timer = "running"
        /\ pc = "crashed" => exit_status = 1 /\ stderr # <<>>
        /\ \A t \in raised : started[t] = 1 /\ ran[t] = 0

C7_Crashed ==
    /\ raised # {}
    /\ pc = "crashed"
    /\ num_processes = 2
    /\ \E t \in DOMAIN ran : ran[t] = 1

\* C8: while the warm-up is going on the timer is not started, main is the
\* only process and no task has begun; and once the timer is started every
\* warm-up call has returned.
C8_WarmUpBeforeTimer ==
    /\ (pc \in {"L116", "L117", "L118"} \/ frame[Main].pc # "idle") =>
          /\ timer = "unset"
          /\ DOMAIN ctx = {Main} /\ DOMAIN frame = {Main}
          /\ tasks = <<>> /\ taskqueue = <<>> /\ started = <<>>
    /\ timer # "unset" =>
          /\ warm_i = warm_up_reps
          /\ frame[Main].pc = "idle"

C8_WarmingUp ==
    /\ pc = "L118"
    /\ frame[Main].pc = "L77"
    /\ warm_up_reps = 1
    /\ timer = "unset"

\* C9: in every call of calculate_pi, in every process and whatever the
\* precision the call found, the operations of the two series and of the
\* combination ran under precision digits + 10 and the last rounding under
\* precision digits; and the context of a process in a call is the one its
\* own call has set, whatever the other processes do.
C9_WorkingPrecision ==
    \A p \in DOMAIN frame :
        /\ frame[p].used \subseteq {frame[p].digits + 10}
        /\ frame[p].used_final \subseteq {frame[p].digits}
        /\ frame[p].pc \in {"L76", "L77", "L80", "L83"} =>
              ctx[p] = frame[p].digits + 10
        /\ frame[p].pc \in {"L80", "L83", "L85", "returned"} =>
              frame[p].used = {frame[p].digits + 10}
        /\ frame[p].pc = "L85" => ctx[p] = frame[p].digits
        /\ frame[p].pc = "returned" => frame[p].used_final = {frame[p].digits}

C9_ReusedWorker ==
    \E w \in Workers, v \in Workers :
        /\ w # v
        /\ worker[w].chunk # <<>> /\ Task(w) > 2
        /\ frame[w].pc = "returned"
        /\ frame[w].entry_prec = frame[w].digits
        /\ frame[v].pc = "L77"
        /\ frame[v].entry_prec = frame[v].digits

=============================================================================
